---- MODULE Spec2Model ----
(***************************************************************************)
(* State-machine model of the ScholarAgent front end: the App router, the  *)
(* Dashboard (paper listing, upload affordance) and the Reader (sentence   *)
(* highlight synchronisation, tabs, citation popover).                     *)
(*                                                                         *)
(* JavaScript null is modelled as the empty tuple and a non-null value v   *)
(* as the one-element tuple <<v>>.  A component instance is a record whose *)
(* field "mounted" tells whether React currently holds it; the useState    *)
(* slots of a mounted instance are its other fields.                       *)
(***************************************************************************)
EXTENDS Integers, Sequences, FiniteSets, TLC

VARIABLES
    location,     \* the router's current path, as its list of segments
    papers,       \* the records the Dashboard lists
    content,      \* the sentence units the Reader displays
    dashboard,    \* the Dashboard instance
    reader,       \* the Reader instance
    alert,        \* the blocking alert() dialog: Null or <<message>>
    lastEvent,    \* history: the last event handled
    lastHover,    \* history: the identifier of the last hover event on this Reader
    lastDrag,     \* history: the last drag event on this Dashboard
    lastReader    \* history: the Reader instance as it was when last unmounted

vars == <<location, papers, content, dashboard, reader, alert,
          lastEvent, lastHover, lastDrag, lastReader>>

Null == <<>>
Some(v) == <<v>>

Unmounted == [mounted |-> FALSE]

\* ------------------------------------------------------------------------
\* Bounds of the inputs
\* ------------------------------------------------------------------------
MaxItemId == 4

\* ------------------------------------------------------------------------
\* Static data
\* ------------------------------------------------------------------------
recentPapers ==
    << [id |-> 1, title |-> "Deep Residual Learning for Image Recognition",
        date |-> "2 hours ago", status |-> "ready", tags |-> <<"CV", "ResNet">>],
       [id |-> 2, title |-> "Attention Is All You Need",
        date |-> "Yesterday", status |-> "ready", tags |-> <<"NLP", "Transformer">>],
       [id |-> 3, title |-> "A Survey on Large Language Models",
        date |-> "3 days ago", status |-> "processing", tags |-> <<"LLM", "Survey">>] >>

Ref1 ==
    [id |-> "ref-1",
     title |-> "Neural Machine Translation by Jointly Learning to Align and Translate",
     authors |-> "Bahdanau et al., 2014",
     abstract |-> "This paper introduces the attention mechanism in RNNs, allowing the model to search for parts of a source sentence that are relevant to predicting a target word."]

\* A second reference, so that one open citation can be replaced by another.
Ref2 ==
    [id |-> "ref-2",
     title |-> "Sequence to Sequence Learning with Neural Networks",
     authors |-> "Sutskever et al., 2014",
     abstract |-> "A multilayered LSTM maps the input sequence to a vector and another LSTM decodes the target sequence from it."]

\* The text fields are abbreviated: en to its first words, cn to a tag.
MOCK_CONTENT ==
    << [id |-> 1, en |-> "The dominant sequence transduction models ...",
        cn |-> "cn-1", citation |-> Null],
       [id |-> 2, en |-> "The best performing models also connect ...",
        cn |-> "cn-2", citation |-> Null],
       [id |-> 3, en |-> "We propose a new simple network architecture ... [1].",
        cn |-> "cn-3", citation |-> Some(Ref1)] >>

\* MOCK_CONTENT with a second citation marker, on sentence 2.
TwoCitationContent ==
    [MOCK_CONTENT EXCEPT ![2].citation = Some(Ref2)]

Documents == {MOCK_CONTENT, TwoCitationContent}

\* The records a listing row is rendered from: any identifier, any status
\* string (recognised or not), any tag list.
ItemStatuses == {"ready", "processing", "failed", "READY", ""}
ItemTags == {<<>>, <<"CV">>, <<"NLP", "Transformer">>}
ItemPapers ==
    { [id |-> i, title |-> "Paper", date |-> "Today", status |-> s, tags |-> t] :
        i \in 1..MaxItemId, s \in ItemStatuses, t \in ItemTags }

\* ------------------------------------------------------------------------
\* Routing (App)
\* ------------------------------------------------------------------------
RootPath == <<>>
DashboardPath == <<"dashboard">>

\* The template literal `/read/${id}`: the identifier is formatted as text.
ReadPath(id) == <<"read", ToString(id)>>

\* <Routes>: the element of the first route whose pattern matches.
MatchRoute(loc) ==
    IF Len(loc) = 0 THEN "Navigate"
    ELSE IF Len(loc) = 1 /\ loc[1] = "dashboard" THEN "Dashboard"
    ELSE IF Len(loc) = 2 /\ loc[1] = "read" THEN "Reader"
    ELSE "none"

\* useParams(): the :id segment of the matched /read/:id route, a string.
useParams(loc) == [id |-> loc[2]]

\* ------------------------------------------------------------------------
\* PaperItem
\* ------------------------------------------------------------------------
ReadyBadge == "Sparkles"
ProcessingBadge == "Bot"

PaperItemWrongBadge(paper) ==
    [title |-> paper.title, date |-> paper.date, tags |-> paper.tags,
     badges |-> (IF paper.status = "ready" THEN <<ReadyBadge>> ELSE <<>>)
                \o (IF paper.status # "ready" THEN <<ProcessingBadge>> ELSE <<>>),
     onClick |-> paper.id]

\* The rendered row: its texts, its tag chips, its badges and the identifier
\* its onClick closure hands to handlePaperClick.
PaperItem(paper) ==
    [title |-> paper.title, date |-> paper.date, tags |-> paper.tags,
     badges |-> (IF paper.status = "ready" THEN <<ReadyBadge>> ELSE <<>>)
                \o (IF paper.status = "processing" THEN <<ProcessingBadge>> ELSE <<>>),
     onClick |-> paper.id]

\* ------------------------------------------------------------------------
\* Dashboard
\* ------------------------------------------------------------------------
UploadAlert == "Backend integration needed for file upload"

DashboardRenderSharedFlag(dragging) ==
    [mounted |-> TRUE,
     isDragging |-> IF reader.mounted THEN reader.activeCitation # Null ELSE dragging,
     rows |-> [i \in 1..Len(papers) |-> PaperItem(papers[i])]]

\* One render of Dashboard with the given drag flag.
DashboardRender(dragging) ==
    [mounted |-> TRUE, isDragging |-> dragging,
     rows |-> [i \in 1..Len(papers) |-> PaperItem(papers[i])]]

\* The drop zone's handlers: the next render and the alert they raise.
onDragOver(d) == [dashboard |-> DashboardRender(TRUE), alert |-> Null]

onDragLeave(d) == [dashboard |-> DashboardRender(FALSE), alert |-> Null]

onDropKeepsFlag(d) == [dashboard |-> d, alert |-> Some(UploadAlert)]

onDrop(d) == [dashboard |-> DashboardRender(FALSE), alert |-> Some(UploadAlert)]

handlePaperClickOffByOne(id) == ReadPath(id + 1)

\* handlePaperClick: the path handed to navigate().
handlePaperClick(id) == ReadPath(id)

\* ------------------------------------------------------------------------
\* Reader
\* ------------------------------------------------------------------------
Tabs == {"translation", "chat"}

\* The Reader's hover slot starts empty.
InitialHover == Null

ReaderMountKeepsTab(loc) ==
    [mounted |-> TRUE, id |-> useParams(loc).id,
     activeTab |-> IF lastReader.mounted THEN lastReader.activeTab ELSE "translation",
     activeCitation |-> IF lastReader.mounted THEN lastReader.activeCitation ELSE Null,
     hoveredSentence |-> InitialHover]

ReaderMountKeepsHover(loc) ==
    [mounted |-> TRUE, id |-> useParams(loc).id,
     activeTab |-> "translation", activeCitation |-> Null,
     hoveredSentence |-> IF lastReader.mounted THEN lastReader.hoveredSentence ELSE InitialHover]

\* First render of a Reader for the location loc.
ReaderMount(loc) ==
    [mounted |-> TRUE, id |-> useParams(loc).id,
     activeTab |-> "translation", activeCitation |-> Null,
     hoveredSentence |-> InitialHover]

SentenceIds == {content[i].id : i \in 1..Len(content)}
Sentence(k) == CHOOSE s \in {content[i] : i \in 1..Len(content)} : s.id = k

\* setHoveredSentence
setHoveredSentence(r, v) == [r EXCEPT !.hoveredSentence = v]

\* handleCitationClick: the clicked reference becomes the active citation.
handleCitationClick(r, citation) == [r EXCEPT !.activeCitation = Some(citation)]

\* The sentence span's onMouseEnter (main pane).
onMouseEnterMain(r, sentence) == setHoveredSentence(r, Some(sentence.id))

\* The sentence span's onMouseLeave (main pane).
onMouseLeaveMain(r, sentence) == setHoveredSentence(r, Null)

onMouseEnterSideByIndex(r, item) == setHoveredSentence(r, Some(item.id - 1))

\* The translation item's onMouseEnter (side panel).
onMouseEnterSide(r, item) == setHoveredSentence(r, Some(item.id))

onCitationMarkerClickFirstWins(r, sentence) ==
    IF r.activeCitation = Null THEN handleCitationClick(r, sentence.citation[1]) ELSE r

onCitationMarkerClickSelects(r, sentence) ==
    setHoveredSentence(handleCitationClick(r, sentence.citation[1]), Some(sentence.id))

\* The citation marker's onClick; stopPropagation keeps the click from the
\* enclosing sentence span, which registers no click handler of its own.
onCitationMarkerClick(r, sentence) == handleCitationClick(r, sentence.citation[1])

onCloseCitationKeeps(r) == [r EXCEPT !.activeCitation = r.activeCitation]

\* The onClose handed to CitationCard.
onCloseCitation(r) == [r EXCEPT !.activeCitation = Null]

setActiveTabResets(r, tab) == [r EXCEPT !.activeTab = tab, !.activeCitation = Null]

\* setActiveTab
setActiveTab(r, tab) == [r EXCEPT !.activeTab = tab]

\* The sentence spans of the main pane that carry the highlight classes.
MainHighlighted(r) ==
    {content[i].id : i \in {j \in 1..Len(content) : r.hoveredSentence = Some(content[j].id)}}

\* The translation items of the side panel that carry the highlight classes;
\* the list is rendered only under the translation tab.
SideHighlighted(r) ==
    IF r.activeTab = "translation"
    THEN {content[i].id : i \in {j \in 1..Len(content) : r.hoveredSentence = Some(content[j].id)}}
    ELSE {}

\* What a CitationCard shows of its data.
CitationCard(data) ==
    [title |-> data.title, authors |-> data.authors, abstract |-> data.abstract]

\* The citation cards the Reader renders.
Popovers(r) ==
    IF r.activeCitation # Null THEN <<CitationCard(r.activeCitation[1])>> ELSE <<>>

\* ------------------------------------------------------------------------
\* Navigation: the router moves to a path and <Routes> re-renders.  React
\* keeps an instance whose element type is rendered again at the same place
\* and discards the others; a new instance starts from its useState defaults.
\* ------------------------------------------------------------------------
\* History record of an event: its kind, its argument and the two instances
\* as they were when it was delivered.
Event(type, arg) ==
    [type |-> type, arg |-> arg, before |-> [dashboard |-> dashboard, reader |-> reader]]

\* History record of the hover events of one Reader instance: the last
\* pointer event on a sentence unit, the unit's identifier and its pane.
NoHover == [event |-> "none", id |-> 0, pane |-> "none"]
HoverEnter(k, pane) == [event |-> "enter", id |-> k, pane |-> pane]
HoverLeave(k, pane) == [event |-> "leave", id |-> k, pane |-> pane]

NavigateTo(to) ==
    /\ location' = to
    /\ dashboard' = IF MatchRoute(to) = "Dashboard"
                    THEN (IF dashboard.mounted THEN dashboard ELSE DashboardRender(FALSE))
                    ELSE Unmounted
    /\ reader' = IF MatchRoute(to) = "Reader"
                 THEN (IF reader.mounted
                       THEN [reader EXCEPT !.id = useParams(to).id]
                       ELSE ReaderMount(to))
                 ELSE Unmounted
    /\ lastReader' = IF reader.mounted /\ MatchRoute(to) # "Reader" THEN reader ELSE lastReader
    /\ lastHover' = IF reader.mounted /\ MatchRoute(to) = "Reader" THEN lastHover ELSE NoHover
    /\ lastDrag' = IF dashboard.mounted /\ MatchRoute(to) = "Dashboard" THEN lastDrag ELSE "none"

\* <Navigate to="/dashboard" replace /> on the root route.
RootRedirect ==
    /\ alert = Null
    /\ MatchRoute(location) = "Navigate"
    /\ NavigateTo(DashboardPath)
    /\ lastEvent' = Event("redirect", Null)
    /\ UNCHANGED <<papers, content, alert>>

\* ------------------------------------------------------------------------
\* Dashboard events
\* ------------------------------------------------------------------------
\* A click on row i of the listing.
PaperClick(i) ==
    /\ alert = Null
    /\ dashboard.mounted
    /\ i \in DOMAIN dashboard.rows
    /\ NavigateTo(handlePaperClick(dashboard.rows[i].onClick))
    /\ lastEvent' = Event("paperClick", Some(i))
    /\ UNCHANGED <<papers, content, alert>>

DragOver ==
    /\ alert = Null
    /\ dashboard.mounted
    /\ dashboard' = onDragOver(dashboard).dashboard
    /\ alert' = onDragOver(dashboard).alert
    /\ lastDrag' = "dragOver"
    /\ lastEvent' = Event("dragOver", Null)
    /\ UNCHANGED <<location, papers, content, reader, lastHover, lastReader>>

DragLeave ==
    /\ alert = Null
    /\ dashboard.mounted
    /\ dashboard' = onDragLeave(dashboard).dashboard
    /\ alert' = onDragLeave(dashboard).alert
    /\ lastDrag' = "dragLeave"
    /\ lastEvent' = Event("dragLeave", Null)
    /\ UNCHANGED <<location, papers, content, reader, lastHover, lastReader>>

Drop ==
    /\ alert = Null
    /\ dashboard.mounted
    /\ dashboard' = onDrop(dashboard).dashboard
    /\ alert' = onDrop(dashboard).alert
    /\ lastDrag' = "drop"
    /\ lastEvent' = Event("drop", Null)
    /\ UNCHANGED <<location, papers, content, reader, lastHover, lastReader>>

\* The user dismisses the alert dialog; until then no event is delivered.
DismissAlert ==
    /\ alert # Null
    /\ alert' = Null
    /\ lastEvent' = Event("dismissAlert", Null)
    /\ UNCHANGED <<location, papers, content, dashboard, reader, lastHover, lastDrag, lastReader>>

\* ------------------------------------------------------------------------
\* Reader events
\* ------------------------------------------------------------------------
BackClickTarget == DashboardPath

\* The header's back button.
BackClick ==
    /\ alert = Null
    /\ reader.mounted
    /\ NavigateTo(BackClickTarget)
    /\ lastEvent' = Event("back", Null)
    /\ UNCHANGED <<papers, content, alert>>

TabClick(tab) ==
    /\ alert = Null
    /\ reader.mounted
    /\ reader' = setActiveTab(reader, tab)
    /\ lastEvent' = Event("tab", Some(tab))
    /\ UNCHANGED <<location, papers, content, dashboard, alert, lastHover, lastDrag, lastReader>>

MainEnter(k) ==
    /\ alert = Null
    /\ reader.mounted
    /\ k \in SentenceIds
    /\ reader' = onMouseEnterMain(reader, Sentence(k))
    /\ lastHover' = HoverEnter(k, "main")
    /\ lastEvent' = Event("mainEnter", Some(k))
    /\ UNCHANGED <<location, papers, content, dashboard, alert, lastDrag, lastReader>>

\* A pointer leaves the unit it is over: the one it entered last.
MainLeave(k) ==
    /\ alert = Null
    /\ reader.mounted
    /\ k \in SentenceIds
    /\ lastHover = HoverEnter(k, "main")
    /\ reader' = onMouseLeaveMain(reader, Sentence(k))
    /\ lastHover' = HoverLeave(k, "main")
    /\ lastEvent' = Event("mainLeave", Some(k))
    /\ UNCHANGED <<location, papers, content, dashboard, alert, lastDrag, lastReader>>

SideEnter(k) ==
    /\ alert = Null
    /\ reader.mounted
    /\ reader.activeTab = "translation"
    /\ k \in SentenceIds
    /\ reader' = onMouseEnterSide(reader, Sentence(k))
    /\ lastHover' = HoverEnter(k, "side")
    /\ lastEvent' = Event("sideEnter", Some(k))
    /\ UNCHANGED <<location, papers, content, dashboard, alert, lastDrag, lastReader>>

SideLeaveClears(k) ==
    /\ alert = Null
    /\ reader.mounted
    /\ reader.activeTab = "translation"
    /\ k \in SentenceIds
    /\ lastHover = HoverEnter(k, "side")
    /\ reader' = setHoveredSentence(reader, Null)
    /\ lastHover' = HoverLeave(k, "side")
    /\ lastEvent' = Event("sideLeave", Some(k))
    /\ UNCHANGED <<location, papers, content, dashboard, alert, lastDrag, lastReader>>

\* The pointer leaves a translation item of the side panel: the item
\* registers no onMouseLeave, so no handler runs and no state changes.
SideLeave(k) ==
    /\ alert = Null
    /\ reader.mounted
    /\ reader.activeTab = "translation"
    /\ k \in SentenceIds
    /\ lastHover = HoverEnter(k, "side")
    /\ lastHover' = HoverLeave(k, "side")
    /\ lastEvent' = Event("sideLeave", Some(k))
    /\ UNCHANGED <<location, papers, content, dashboard, reader, alert, lastDrag, lastReader>>

CitationClick(k) ==
    /\ alert = Null
    /\ reader.mounted
    /\ k \in SentenceIds
    /\ Sentence(k).citation # Null
    /\ reader' = onCitationMarkerClick(reader, Sentence(k))
    /\ lastEvent' = Event("citationClick", Some(k))
    /\ UNCHANGED <<location, papers, content, dashboard, alert, lastHover, lastDrag, lastReader>>

CloseCitation ==
    /\ alert = Null
    /\ reader.mounted
    /\ Popovers(reader) # <<>>
    /\ reader' = onCloseCitation(reader)
    /\ lastEvent' = Event("closeCitation", Null)
    /\ UNCHANGED <<location, papers, content, dashboard, alert, lastHover, lastDrag, lastReader>>

\* ------------------------------------------------------------------------
\* Specifications
\* ------------------------------------------------------------------------
\* The page is loaded on any of the application's paths.
InitAt(loc) ==
    /\ location = loc
    /\ lastReader = Unmounted
    /\ lastHover = NoHover
    /\ lastDrag = "none"
    /\ alert = Null
    /\ reader = IF MatchRoute(loc) = "Reader" THEN ReaderMount(loc) ELSE Unmounted
    /\ dashboard = IF MatchRoute(loc) = "Dashboard" THEN DashboardRender(FALSE) ELSE Unmounted
    /\ lastEvent = Event("load", Null)

Init ==
    /\ papers = recentPapers
    /\ content \in Documents
    /\ \E loc \in {RootPath, DashboardPath} \cup {ReadPath(recentPapers[i].id) : i \in 1..Len(recentPapers)} :
          InitAt(loc)

Next ==
    \/ RootRedirect
    \/ \E i \in 1..Len(papers) : PaperClick(i)
    \/ DragOver
    \/ DragLeave
    \/ Drop
    \/ DismissAlert
    \/ BackClick
    \/ \E tab \in Tabs : TabClick(tab)
    \/ \E k \in SentenceIds : MainEnter(k)
    \/ \E k \in SentenceIds : MainLeave(k)
    \/ \E k \in SentenceIds : SideEnter(k)
    \/ \E k \in SentenceIds : SideLeave(k)
    \/ \E k \in SentenceIds : CitationClick(k)
    \/ CloseCitation

Spec == Init /\ [][Next]_vars

\* The listing of one arbitrary record: the inputs of PaperItem.
ItemInit ==
    /\ papers \in {<<p>> : p \in ItemPapers}
    /\ content = MOCK_CONTENT
    /\ InitAt(DashboardPath)

ItemNext ==
    \/ \E i \in 1..Len(papers) : PaperClick(i)
    \/ BackClick
    \/ DragOver
    \/ DragLeave

SpecItem == ItemInit /\ [][ItemNext]_vars

\* ------------------------------------------------------------------------
\* Properties
\* ------------------------------------------------------------------------
HoverEvents == {"mainEnter", "mainLeave", "sideEnter", "sideLeave"}
DragEvents == {"dragOver", "dragLeave", "drop"}

\* The identifier the hover history calls for: the one of the last hover
\* event if that was an enter, none after a leave or before any hover event.
LastHovered == IF lastHover.event = "enter" THEN {lastHover.id} ELSE {}

\* C1: in every state of a Reader at most one sentence identifier is
\* highlighted, over both panes; the main pane highlights exactly the
\* identifier of the last hover event if that was an enter and nothing after
\* a leave or before any hover event, the side list (when rendered)
\* highlights the same; with no hovered identifier no unit is highlighted.
HoverHighlightInv ==
    reader.mounted =>
        /\ Cardinality(MainHighlighted(reader) \cup SideHighlighted(reader)) <= 1
        /\ MainHighlighted(reader) = LastHovered
        /\ SideHighlighted(reader) =
              (IF reader.activeTab = "translation" THEN LastHovered ELSE {})
        /\ (reader.hoveredSentence = Null =>
              MainHighlighted(reader) = {} /\ SideHighlighted(reader) = {})

\* C2: under the translation tab, a pointer-enter on sentence k, whichever
\* pane delivers it, leads to the Reader state that the main-pane handler
\* and the side-panel handler both produce for k: same hovered identifier,
\* same highlighted units in both panes, same tab, same citation.
HoverSymmetry ==
    [][ (lastEvent'.type \in {"mainEnter", "sideEnter"} /\ reader.activeTab = "translation") =>
          LET k == lastEvent'.arg[1] IN
            /\ reader' = onMouseEnterMain(reader, Sentence(k))
            /\ reader' = onMouseEnterSide(reader, Sentence(k))
            /\ MainHighlighted(onMouseEnterMain(reader, Sentence(k)))
                 = MainHighlighted(onMouseEnterSide(reader, Sentence(k)))
            /\ SideHighlighted(onMouseEnterMain(reader, Sentence(k)))
                 = SideHighlighted(onMouseEnterSide(reader, Sentence(k))) ]_vars

\* C2 witness: sentence 1 hovered from the side panel while a citation is open.
HoverSymmetryWitness ==
    /\ reader.mounted
    /\ lastEvent.type = "sideEnter"
    /\ lastEvent.arg = Some(1)
    /\ reader.activeTab = "translation"
    /\ reader.activeCitation # Null
    /\ reader.hoveredSentence = Some(1)

\* C3: a Reader never renders more than one citation card, and a click on
\* the marker of sentence k makes that sentence's reference the active
\* citation and the only card shown, whatever was open before.
CitationLastWriteWins ==
    [][ /\ (reader'.mounted => Len(Popovers(reader')) <= 1)
        /\ (lastEvent'.type = "citationClick" =>
              LET ref == Sentence(lastEvent'.arg[1]).citation[1] IN
                /\ reader'.activeCitation = Some(ref)
                /\ Popovers(reader') = <<CitationCard(ref)>>) ]_vars

\* C3 witness: ref-2 opened while ref-1 was open; only ref-2 is shown.
CitationReplaceWitness ==
    /\ reader.mounted
    /\ lastEvent.type = "citationClick"
    /\ lastEvent.before.reader.activeCitation = Some(Ref1)
    /\ reader.activeCitation = Some(Ref2)
    /\ Popovers(reader) = <<CitationCard(Ref2)>>

\* C4: a click on a citation marker and the close of the card leave the
\* hovered identifier unchanged; every hover event leaves the active
\* citation unchanged.
HoverCitationIndependent ==
    [][ /\ (lastEvent'.type \in {"citationClick", "closeCitation"} =>
              reader'.hoveredSentence = reader.hoveredSentence)
        /\ (lastEvent'.type \in HoverEvents =>
              reader'.activeCitation = reader.activeCitation) ]_vars

\* C4 witness: the marker of sentence 3 clicked while sentence 1 is the
\* hovered one; ref-1 is open and sentence 1 still hovered.
HoverCitationWitness ==
    /\ reader.mounted
    /\ lastEvent.type = "citationClick"
    /\ lastEvent.arg = Some(3)
    /\ lastEvent.before.reader.hoveredSentence = Some(1)
    /\ reader.hoveredSentence = Some(1)
    /\ reader.activeCitation = Some(Ref1)

\* C5: the close action leaves no active citation and no card, whatever the
\* hovered sentence and the tab; and a Reader without an open card (or a new
\* Reader) shows a card next only through a citation-marker click.
CloseCitationClears ==
    [][ /\ (lastEvent'.type = "closeCitation" =>
              reader'.activeCitation = Null /\ Popovers(reader') = <<>>)
        /\ ((/\ reader'.mounted
             /\ reader'.activeCitation # Null
             /\ (reader.mounted => reader.activeCitation = Null)) =>
              lastEvent'.type = "citationClick") ]_vars

\* C5 witness: a card closed under the chat tab with a sentence hovered.
CloseCitationWitness ==
    /\ reader.mounted
    /\ lastEvent.type = "closeCitation"
    /\ lastEvent.before.reader.activeCitation # Null
    /\ reader.activeCitation = Null
    /\ reader.activeTab = "chat"
    /\ reader.hoveredSentence # Null

\* C6: a tab click sets the active tab to the clicked one and leaves the
\* hovered identifier and the active citation unchanged; if the last hover
\* event was a leave that cleared the highlight, no unit is highlighted
\* after the click.
TabSwitchFrame ==
    [][ lastEvent'.type = "tab" =>
          /\ reader'.activeTab = lastEvent'.arg[1]
          /\ reader'.hoveredSentence = reader.hoveredSentence
          /\ reader'.activeCitation = reader.activeCitation
          /\ ((lastHover.event = "leave" /\ reader.hoveredSentence = Null) =>
                MainHighlighted(reader') = {} /\ SideHighlighted(reader') = {}) ]_vars

\* C6 witness: back on the translation tab from chat, after a pointer-leave,
\* with a citation open: nothing highlighted, the citation still open.
TabSwitchWitness ==
    /\ reader.mounted
    /\ lastEvent.type = "tab"
    /\ lastEvent.arg = Some("translation")
    /\ lastEvent.before.reader.activeTab = "chat"
    /\ lastHover.event = "leave"
    /\ lastEvent.before.reader.hoveredSentence = Null
    /\ reader.activeCitation # Null
    /\ MainHighlighted(reader) = {}
    /\ SideHighlighted(reader) = {}

\* The paper identifier a Reader displayed last: the current one, or the one
\* of the Reader last unmounted.
PrevShownId ==
    IF reader.mounted THEN Some(reader.id)
    ELSE IF lastReader.mounted THEN Some(lastReader.id)
    ELSE Null

PaperClickRoutes ==
    [][ lastEvent'.type = "paperClick" =>
          LET p == papers[lastEvent'.arg[1]] IN
            /\ location' = <<"read", ToString(p.id)>>
            /\ MatchRoute(location') = "Reader"
            /\ reader'.mounted
            /\ reader'.id = ToString(p.id)
            /\ ~ dashboard'.mounted
            /\ \A j \in DOMAIN papers :
                  papers[j].id # p.id => reader'.id # ToString(papers[j].id) ]_vars

\* C8 witness: paper 2 clicked; the location is /read/2 and the Reader's id "2".
PaperClickWitness ==
    /\ lastEvent.type = "paperClick"
    /\ papers[lastEvent.arg[1]].id = 2
    /\ location = <<"read", "2">>
    /\ reader.mounted
    /\ reader.id = "2"

\* C9: the drag flag of a Dashboard is true exactly when its last drag event
\* was a drag-over; a drop raises the upload alert and leaves the flag
\* false; no drag or drop event changes the location, the listed rows or
\* the Reader.
DragFlagVisualOnly ==
    [][ /\ (dashboard'.mounted => (dashboard'.isDragging <=> lastDrag' = "dragOver"))
        /\ (lastEvent'.type = "drop" =>
              alert' = Some(UploadAlert) /\ ~ dashboard'.isDragging)
        /\ (lastEvent'.type \in DragEvents =>
              /\ location' = location
              /\ papers' = papers
              /\ dashboard'.rows = dashboard.rows
              /\ reader' = reader) ]_vars

\* C9 witness: a drop on a drop zone whose flag was set; alert up, flag false.
DropWitness ==
    /\ dashboard.mounted
    /\ lastEvent.type = "drop"
    /\ lastEvent.before.dashboard.isDragging
    /\ ~ dashboard.isDragging
    /\ alert = Some(UploadAlert)

Range(seq) == {seq[i] : i \in DOMAIN seq}

\* C10: every rendered row shows the ready badge exactly for status ready,
\* the processing badge exactly for status processing, never both and none
\* for any other status; its click hands over the record's identifier, and
\* after a click on it the location is the reader route of that identifier.
BadgeByStatus ==
    /\ dashboard.mounted =>
          \A i \in DOMAIN dashboard.rows :
             LET row == dashboard.rows[i]
                 p == papers[i] IN
               /\ (ReadyBadge \in Range(row.badges) <=> p.status = "ready")
               /\ (ProcessingBadge \in Range(row.badges) <=> p.status = "processing")
               /\ Len(row.badges) <= 1
               /\ (p.status \notin {"ready", "processing"} => row.badges = <<>>)
               /\ row.onClick = p.id
    /\ lastEvent.type = "paperClick" =>
          location = ReadPath(papers[lastEvent.arg[1]].id)

\* C10 witness: a record of status "failed" was rendered without a badge
\* and its row clicked.
BadgeFallbackWitness ==
    /\ lastEvent.type = "paperClick"
    /\ papers[lastEvent.arg[1]].status = "failed"
    /\ lastEvent.before.dashboard.rows[lastEvent.arg[1]].badges = <<>>
    /\ reader.mounted

\* What a listing shows of its records: identifier and badges, row by row.
Listing(rows) == [i \in DOMAIN rows |-> [id |-> rows[i].onClick, badges |-> rows[i].badges]]

\* C11: whatever the Reader's tab, hovered sentence and citation are when
\* the back button is clicked, the Dashboard then shown is one and the same:
\* the rows of the listed papers in their order, each with the badge of its
\* status, and the drag flag false.  The Dashboard reached is thus the same
\* after any two sequences of Reader interactions.
NoFlowBackToDashboard ==
    [][ lastEvent'.type = "back" =>
          /\ dashboard'.mounted
          /\ ~ dashboard'.isDragging
          /\ Len(dashboard'.rows) = Len(papers)
          /\ Listing(dashboard'.rows) =
                [i \in 1..Len(papers) |->
                    [id |-> papers[i].id,
                     badges |-> IF papers[i].status = "ready" THEN <<ReadyBadge>>
                                ELSE IF papers[i].status = "processing" THEN <<ProcessingBadge>>
                                ELSE <<>>]] ]_vars

\* C11 witness: back on the Dashboard from a Reader left under the chat tab
\* with a sentence hovered and a citation open.
NoFlowBackWitness ==
    /\ lastEvent.type = "back"
    /\ lastEvent.before.reader.activeTab = "chat"
    /\ lastEvent.before.reader.hoveredSentence # Null
    /\ lastEvent.before.reader.activeCitation # Null
    /\ dashboard.mounted
    /\ ~ dashboard.isDragging

\* C12: a pointer-leave from a side-panel item runs no handler: the Reader
\* state is unchanged and the item's sentence is still the hovered one.  From
\* then on, as long as the Reader is shown, the sentence stays highlighted
\* in the main pane, under either tab, through every event other than a
\* pointer-enter (either pane) or a main-pane pointer-leave.
SideLeaveKeepsHighlight ==
    [][ /\ (lastEvent'.type = "sideLeave" =>
              /\ reader' = reader
              /\ reader'.hoveredSentence = lastEvent'.arg
              /\ MainHighlighted(reader') = {lastEvent'.arg[1]})
        /\ ((/\ reader.mounted
             /\ reader'.mounted
             /\ lastHover = HoverLeave(lastHover.id, "side")
             /\ lastEvent'.type \notin {"mainEnter", "sideEnter", "mainLeave"}) =>
              /\ reader'.hoveredSentence = Some(lastHover.id)
              /\ MainHighlighted(reader') = {lastHover.id}) ]_vars

\* C12 witness: the pointer left side-panel item 2, then the chat tab was
\* selected: sentence 2 is still highlighted in the main pane, and the side
\* list is not rendered.
SideLeaveWitness ==
    /\ reader.mounted
    /\ lastEvent.type = "tab"
    /\ reader.activeTab = "chat"
    /\ lastHover = HoverLeave(2, "side")
    /\ MainHighlighted(reader) = {2}
    /\ SideHighlighted(reader) = {}

\* C13: a step that changes the location while a Reader is shown leads to
\* the listing view and discards the Reader; a Reader that a step brings up
\* starts under the translation tab with no citation card, whatever the
\* previous Reader's tab and citation were.
ReaderStateScoped ==
    [][ /\ ((reader.mounted /\ location' # location) =>
              /\ location' = DashboardPath
              /\ dashboard'.mounted
              /\ ~ reader'.mounted)
        /\ ((~ reader.mounted /\ reader'.mounted) =>
              /\ lastEvent'.type = "paperClick"
              /\ reader'.activeTab = "translation"
              /\ reader'.activeCitation = Null
              /\ Popovers(reader') = <<>>) ]_vars

\* C13 witness: a Reader entered from the listing after a Reader that was
\* left under the chat tab with a citation open.
ReaderStateScopedWitness ==
    /\ reader.mounted
    /\ lastEvent.type = "paperClick"
    /\ lastReader.mounted
    /\ lastReader.activeTab = "chat"
    /\ lastReader.activeCitation # Null
    /\ reader.activeTab = "translation"
    /\ reader.activeCitation = Null

====
